---- MODULE Spec2Model ----
(***************************************************************************)
(* kleinanzeigen-watcher: one run of main() of kleinanzeigen_watcher.py    *)
(* as a state machine over the Results and Searches tabs, the known-id     *)
(* set and the row buffer, together with the pure helpers it calls.        *)
(*                                                                         *)
(* Text is modelled as a sequence of atoms.  An atom is one character, or  *)
(* a literal chunk that no operation of the program looks into (the site   *)
(* origin, a title).  The empty sequence is the empty string.  An optional *)
(* value (Python None or a value v) is <<>> or <<v>>.                      *)
(***************************************************************************)
EXTENDS Integers, Sequences, FiniteSets, TLC

\* ------------------------------------------------------------------ bounds
\* Most rows below the header of the Searches tab.
MaxSearches == 2
\* Most ad cards on one fetched page.
MaxCards == 2

\* ------------------------------------------------------------------ text
None == <<>>
Some(v) == <<v>>
IsNone(o) == o = <<>>

DigitChars == <<"0", "1", "2", "3", "4", "5", "6", "7", "8", "9">>
UpperChars == <<"A", "B", "C", "D", "E", "F", "G", "H", "I", "J", "K", "L", "M",
                "N", "O", "P", "Q", "R", "S", "T", "U", "V", "W", "X", "Y", "Z">>
LowerChars == <<"a", "b", "c", "d", "e", "f", "g", "h", "i", "j", "k", "l", "m",
                "n", "o", "p", "q", "r", "s", "t", "u", "v", "w", "x", "y", "z">>

IsDigit(c) == \E k \in 1..10 : DigitChars[k] = c
DigitVal(c) == (CHOOSE k \in 1..10 : DigitChars[k] = c) - 1
IsSpace(c) == c = " "

\* str.lower() on one character
LowerChar(c) ==
    IF \E k \in 1..26 : UpperChars[k] = c
    THEN LowerChars[CHOOSE k \in 1..26 : UpperChars[k] = c]
    ELSE c

\* str.lower()
Lower(s) == [k \in 1..Len(s) |-> LowerChar(s[k])]

RECURSIVE LStrip(_)
LStrip(s) == IF s # <<>> /\ IsSpace(Head(s)) THEN LStrip(Tail(s)) ELSE s

RECURSIVE RStrip(_)
RStrip(s) ==
    IF s # <<>> /\ IsSpace(s[Len(s)]) THEN RStrip(SubSeq(s, 1, Len(s) - 1)) ELSE s

\* str.strip()
Strip(s) == LStrip(RStrip(s))

\* str.replace(old, new) for a one-character old; new is a string
RECURSIVE Replace(_, _, _)
Replace(s, old, new) ==
    IF s = <<>> THEN <<>>
    ELSE (IF Head(s) = old THEN new ELSE <<Head(s)>>) \o Replace(Tail(s), old, new)

\* re.sub(r"\D", "", s): the digits of s
RECURSIVE OnlyDigits(_)
OnlyDigits(s) ==
    IF s = <<>> THEN <<>>
    ELSE (IF IsDigit(Head(s)) THEN <<Head(s)>> ELSE <<>>) \o OnlyDigits(Tail(s))

RECURSIVE NatToStr(_)
NatToStr(n) ==
    IF n < 10 THEN <<DigitChars[n + 1]>>
    ELSE NatToStr(n \div 10) \o <<DigitChars[(n % 10) + 1]>>

\* str(n) for an int n
IntToStr(n) == IF n < 0 THEN <<"-">> \o NatToStr(0 - n) ELSE NatToStr(n)

RECURSIVE DigitsToNat(_, _)
DigitsToNat(s, acc) ==
    IF s = <<>> THEN acc ELSE DigitsToNat(Tail(s), 10 * acc + DigitVal(Head(s)))

\* Whether int(s) returns: surrounding blanks, one optional sign, one or more digits.
IntLiteral(s) ==
    LET t == Strip(s)
        d == IF t # <<>> /\ Head(t) \in {"+", "-"} THEN Tail(t) ELSE t
    IN  d # <<>> /\ \A k \in 1..Len(d) : IsDigit(d[k])

\* int(s) where IntLiteral(s)
IntOf(s) ==
    LET t == Strip(s)
    IN  IF Head(t) = "-" THEN 0 - DigitsToNat(Tail(t), 0)
        ELSE IF Head(t) = "+" THEN DigitsToNat(Tail(t), 0)
        ELSE DigitsToNat(t, 0)

\* The cell-to-int expression of main():
\*   int(str(cell).replace("_","")) if str(cell).strip() else None
\* CellRaises: the int() call raises ValueError; CellInt: the value otherwise.
CellRaises(cell) == Strip(cell) # <<>> /\ ~IntLiteral(Replace(cell, "_", <<>>))
CellInt(cell) ==
    IF Strip(cell) = <<>> THEN None ELSE Some(IntOf(Replace(cell, "_", <<>>)))

\* ------------------------------------------------------------------ URL builder
BASE_HOST == <<"https://www.kleinanzeigen.de">>

\* Characters quote_plus leaves alone.
QuoteSafe(c) ==
    \/ IsDigit(c)
    \/ \E k \in 1..26 : UpperChars[k] = c \/ LowerChars[k] = c
    \/ c \in {"_", ".", "-", "~"}

\* The percent-escape of the other characters that occur in the sample queries.
PercentEscape(c) ==
    CASE c = "/" -> <<"%", "2", "F">>
      [] c = "&" -> <<"%", "2", "6">>
      [] c = "+" -> <<"%", "2", "B">>
      [] OTHER   -> <<"%", "3", "F">>

RECURSIVE quote_plus(_)
quote_plus(s) ==
    IF s = <<>> THEN <<>>
    ELSE (IF Head(s) = " " THEN <<"+">>
          ELSE IF QuoteSafe(Head(s)) THEN <<Head(s)>>
          ELSE PercentEscape(Head(s))) \o quote_plus(Tail(s))

\* slug = (location_str or "").strip().lower().replace(" ", "-") or "deutschland"
Slug(location_str) ==
    LET s == Replace(Lower(Strip(location_str)), " ", <<"-">>)
    IN  IF s = <<>> THEN <<"d", "e", "u", "t", "s", "c", "h", "l", "a", "n", "d">> ELSE s

\* base = f"{BASE_HOST}/s-{slug}/{q}/k0"
UrlBase(query, location_str) ==
    BASE_HOST \o <<"/", "s", "-">> \o Slug(location_str) \o <<"/">>
        \o quote_plus(query) \o <<"/", "k", "0">>

\* Python truthiness of an optional string: neither None nor "".
Truthy(o) == o # <<>> /\ o[1] # <<>>

\* PriceToken with the bounds tested for truth instead of for None.
PriceToken_Truthy(price_min, price_max) ==
    LET lo == ~IsNone(price_min) /\ price_min[1] # 0
        hi == ~IsNone(price_max) /\ price_max[1] # 0
    IN  IF lo \/ hi
        THEN <<"p">> \o (IF lo THEN IntToStr(price_min[1]) ELSE <<>>)
             \o <<"p">> \o (IF hi THEN IntToStr(price_max[1]) ELSE <<>>)
        ELSE <<>>

\* The price part of build_search_url, lines 109-112.
PriceToken(price_min, price_max) ==
    IF ~IsNone(price_min) \/ ~IsNone(price_max)
    THEN <<"p">> \o (IF IsNone(price_min) THEN <<>> ELSE IntToStr(price_min[1]))
         \o <<"p">> \o (IF IsNone(price_max) THEN <<>> ELSE IntToStr(price_max[1]))
    ELSE <<>>

\* The location-id and radius parts of build_search_url, lines 105-108.
LocRadiusTokens(radius_km, loc_id) ==
    (IF Truthy(loc_id) THEN <<"l">> \o loc_id[1] ELSE <<>>)
    \o (IF radius_km # 0 THEN <<"r">> \o IntToStr(radius_km) ELSE <<>>)

build_search_url(query, location_str, radius_km, price_min, price_max, loc_id) ==
    UrlBase(query, location_str) \o LocRadiusTokens(radius_km, loc_id)
        \o PriceToken(price_min, price_max)

\* ------------------------------------------------------------------ parsing
\* The atom that stands for the bullet character U+2022.
BULLET == "BULLET"

\* The number of digits of s from position p on.
RECURSIVE DigitRun(_, _)
DigitRun(s, p) == IF p <= Len(s) /\ IsDigit(s[p]) THEN 1 + DigitRun(s, p + 1) ELSE 0

\* Where re.search(r"/(\d{6,})-", url) can match: a "/", six or more digits, a "-".
IdMatchAt(url, p) ==
    /\ url[p] = "/"
    /\ DigitRun(url, p + 1) >= 6
    /\ p + 1 + DigitRun(url, p + 1) <= Len(url)
    /\ url[p + 1 + DigitRun(url, p + 1)] = "-"

ad_id_from_url(url) ==
    IF \E p \in 1..Len(url) : IdMatchAt(url, p)
    THEN LET p == CHOOSE q \in 1..Len(url) :
                      IdMatchAt(url, q) /\ \A r \in 1..(q - 1) : ~IdMatchAt(url, r)
         IN  SubSeq(url, p + 1, p + DigitRun(url, p + 1))
    ELSE url

\* One item of fetch_listings for a card with an anchor, lines 160-185.  The
\* card gives the price and the distance as parse_price_eur and extract_km
\* return them from its text.
ItemOf(card) ==
    LET href == card.href[1]
        url  == IF Head(href) = "/" THEN BASE_HOST \o href ELSE href
    IN  [ad_id |-> ad_id_from_url(url), title |-> card.title,
         price_eur |-> card.price, km |-> card.km, meta |-> card.meta, url |-> url]

\* The loop of fetch_listings over the cards of the page, in document order;
\* a card without an anchor or without an href is skipped.
RECURSIVE ParseCards(_)
ParseCards(cards) ==
    IF cards = <<>> THEN <<>>
    ELSE (IF Truthy(Head(cards).href) THEN <<ItemOf(Head(cards))>> ELSE <<>>)
         \o ParseCards(Tail(cards))

\* fetch_listings after a successful GET: the page is parsed whatever it is.
fetch_listings(page) == ParseCards(page.cards)

\* looks_like_consent of debug_kleinanzeigen.py over the phrases the lowered
\* page text contains.
looks_like_consent(page) ==
    \/ {"einwilligung", "cookies"} \subseteq page.phrases
    \/ {"cloudflare", "attention required"} \subseteq page.phrases

\* str.split(sep) for a one-atom separator
RECURSIVE Split(_, _, _)
Split(s, sep, part) ==
    IF s = <<>> THEN <<part>>
    ELSE IF Head(s) = sep THEN <<part>> \o Split(Tail(s), sep, <<>>)
    ELSE Split(Tail(s), sep, Append(part, Head(s)))

\* posted_at and loc_in_meta of main(), lines 262-269, as <<posted_at, loc_in_meta>>.
MetaParts(meta) ==
    LET parts == Split(meta, BULLET, <<>>)
    IN  IF meta = <<>> THEN << <<>>, <<>> >>
        ELSE IF Len(parts) = 2 THEN <<Strip(parts[1]), Strip(parts[2])>>
        ELSE IF Len(parts) = 1 THEN << <<>>, Strip(parts[1]) >>
        ELSE << <<>>, <<>> >>

\* ------------------------------------------------------------------ sheets
\* The header main() wants on the Results tab.
RESULT_HEADERS ==
    << <<"ad_id">>, <<"query">>, <<"title">>, <<"price_eur">>, <<"km">>,
       <<"location">>, <<"url">>, <<"posted_at">>, <<"fetched_at">> >>

REQUIRED ==
    <<
       <<"a", "c", "t", "i", "v", "e">>,
       <<"q", "u", "e", "r", "y">>,
       <<"l", "o", "c", "a", "t", "i", "o", "n">>,
       <<"p", "r", "i", "c", "e", "_", "m", "i", "n">>,
       <<"p", "r", "i", "c", "e", "_", "m", "a", "x">>,
       <<"t", "y", "p", "e">>,
       <<"k", "m", "_", "m", "i", "n">>,
       <<"k", "m", "_", "m", "a", "x">>
    >>

LOCATION_ID == <<"l", "o", "c", "a", "t", "i", "o", "n", "_", "i", "d">>
VEHICLE == <<"v", "e", "h", "i", "c", "l", "e">>
GENERIC == <<"g", "e", "n", "e", "r", "i", "c">>

\* What isoformat() gives for the clock reading t.
IsoFormat(t) == <<"T">> \o IntToStr(t)

\* load_existing_ad_ids reading from row 3 on.
load_existing_ad_ids_FromRow3(tab) ==
    {tab[k][1] : k \in {n \in 3..Len(tab) : tab[n] # <<>> /\ tab[n][1] # <<>>}}

\* load_existing_ad_ids: column A of the tab from row 2 on; the read returns an
\* empty row for an empty cell, and the comprehension drops it.
load_existing_ad_ids(tab) ==
    {tab[k][1] : k \in {n \in 2..Len(tab) : tab[n] # <<>> /\ tab[n][1] # <<>>}}

\* ensure_headers: the tab after the call.
ensure_headers(tab, headers) ==
    IF tab # <<>> /\ tab[1] = headers THEN tab ELSE <<headers>>

\* write_rows_append: the tab after the call.
write_rows_append(tab, rows) == IF rows = <<>> THEN tab ELSE tab \o rows

\* header = [h.lower() for h in searches[0]]
HeaderOf(tab) == [k \in 1..Len(tab[1]) |-> Lower(tab[1][k])]

HasColumn(header, name) == \E k \in 1..Len(header) : header[k] = name

\* idx = {h: i for i, h in enumerate(header)}: the last column of that name.
Idx(header, name) ==
    CHOOSE k \in 1..Len(header) :
        header[k] = name /\ \A m \in (k + 1)..Len(header) : header[m] # name

\* MissingColumn looking for the first five required columns only.
MissingColumn_FirstFive(header) == \E k \in 1..5 : ~HasColumn(header, REQUIRED[k])

\* The loop over required, lines 208-210: some required column is missing.
MissingColumn(header) == \E k \in 1..Len(REQUIRED) : ~HasColumn(header, REQUIRED[k])

\* row += [""] * (len(header) - len(row))
Padded(row, header) ==
    IF Len(row) >= Len(header) THEN row
    ELSE row \o [k \in 1..(Len(header) - Len(row)) |-> <<>>]

Cell(row, header, name) == Padded(row, header)[Idx(header, name)]

\* active_val in ("true", "1", "yes", "y", "ja")
IsActive(row, header) ==
    Lower(Strip(Cell(row, header, REQUIRED[1]))) \in
        { <<"t", "r", "u", "e">>, <<"1">>, <<"y", "e", "s">>, <<"y">>, <<"j", "a">> }

\* kind = (str(row[idx["type"]]).strip().lower() or "generic")
KindOf(row, header) ==
    LET k == Lower(Strip(Cell(row, header, REQUIRED[6])))
    IN  IF k = <<>> THEN GENERIC ELSE k

\* km_min and km_max of main(), lines 231-234: read only for a vehicle search.
KmBound(kind, cell) == IF kind = VEHICLE THEN CellInt(cell) ELSE None

\* An int() of lines 227-234 raises ValueError for this row.
RowRaises(row, header) ==
    \/ CellRaises(Cell(row, header, REQUIRED[4]))
    \/ CellRaises(Cell(row, header, REQUIRED[5]))
    \/ /\ KindOf(row, header) = VEHICLE
       /\ \/ CellRaises(Cell(row, header, REQUIRED[7]))
          \/ CellRaises(Cell(row, header, REQUIRED[8]))

\* loc_id of main(), lines 236-241, with an empty LocationIDs tab.
LocIdOf(row, header) ==
    LET raw == IF HasColumn(header, LOCATION_ID)
               THEN Strip(Cell(row, header, LOCATION_ID)) ELSE <<>>
        id  == IF raw # <<>> THEN Some(OnlyDigits(raw)) ELSE None
    IN  IF Truthy(id) THEN id ELSE None

\* max_radius_km of get_config with an empty Config tab.
DEFAULT_RADIUS == 25

\* The arguments of the build_search_url call of line 243.
UrlArgsOf(row, header) ==
    [made      |-> TRUE,
     query     |-> Strip(Cell(row, header, REQUIRED[2])),
     location  |-> Strip(Cell(row, header, REQUIRED[3])),
     radius    |-> DEFAULT_RADIUS,
     price_min |-> CellInt(Cell(row, header, REQUIRED[4])),
     price_max |-> CellInt(Cell(row, header, REQUIRED[5])),
     loc_id    |-> LocIdOf(row, header)]

UrlOf(a) ==
    build_search_url(a.query, a.location, a.radius, a.price_min, a.price_max, a.loc_id)

\* The search main() has parsed out of one active row, lines 225-243.
SearchOf(row, header) ==
    LET kind == KindOf(row, header)
    IN  [query  |-> Strip(Cell(row, header, REQUIRED[2])),
         kind   |-> kind,
         km_min |-> KmBound(kind, Cell(row, header, REQUIRED[7])),
         km_max |-> KmBound(kind, Cell(row, header, REQUIRED[8])),
         url    |-> UrlOf(UrlArgsOf(row, header))]

\* KmRejects letting a listing without a distance through.
KmRejects_AbsentPasses(s, it) ==
    /\ s.kind = VEHICLE
    /\ ~IsNone(it.km)
    /\ \/ ~IsNone(s.km_min) /\ it.km[1] < s.km_min[1]
       \/ ~IsNone(s.km_max) /\ it.km[1] > s.km_max[1]

\* The distance filter of main(), lines 253-257: the listing is skipped.
KmRejects(s, it) ==
    /\ s.kind = VEHICLE
    /\ \/ ~IsNone(s.km_min) /\ (IsNone(it.km) \/ it.km[1] < s.km_min[1])
       \/ ~IsNone(s.km_max) /\ (IsNone(it.km) \/ it.km[1] > s.km_max[1])

\* The known-id test of main(), lines 259-260: the listing is skipped.
IsKnown(known, it) == it.ad_id \in known

\* AddKnown leaving the set as it is.
AddKnown_Forget(known, it) == known

\* existing_ids.add(it["ad_id"]), line 277
AddKnown(known, it) == known \cup {it.ad_id}

\* The row main() buffers for an accepted listing, lines 271-276.
ResultRow(s, it, now) ==
    <<it.ad_id, s.query, it.title,
      IF IsNone(it.price_eur) THEN <<>> ELSE IntToStr(it.price_eur[1]),
      IF IsNone(it.km) THEN <<>> ELSE IntToStr(it.km[1]),
      MetaParts(it.meta)[2], it.url, MetaParts(it.meta)[1], now>>


\* ------------------------------------------------------------------ inputs
\* A header row with every required column and location_id, in mixed case.
HeaderFull ==
    <<<<"A", "c", "t", "i", "v", "e">>,
       <<"q", "u", "e", "r", "y">>,
       <<"l", "o", "c", "a", "t", "i", "o", "n">>,
       <<"p", "r", "i", "c", "e", "_", "m", "i", "n">>,
       <<"p", "r", "i", "c", "e", "_", "m", "a", "x">>,
       <<"T", "y", "p", "e">>,
       <<"k", "m", "_", "m", "i", "n">>,
       <<"K", "M", "_", "M", "a", "x">>,
       <<"l", "o", "c", "a", "t", "i", "o", "n", "_", "i", "d">>>>
\* A header row without km_max.
HeaderNoKmMax ==
    <<<<"a", "c", "t", "i", "v", "e">>,
       <<"q", "u", "e", "r", "y">>,
       <<"l", "o", "c", "a", "t", "i", "o", "n">>,
       <<"p", "r", "i", "c", "e", "_", "m", "i", "n">>,
       <<"p", "r", "i", "c", "e", "_", "m", "a", "x">>,
       <<"t", "y", "p", "e">>,
       <<"k", "m", "_", "m", "i", "n">>>>
\* active, generic (the row is shorter than its header)
RowGeneric ==
    <<<<"t", "r", "u", "e">>,
       <<"s", "o", "f", "a">>,
       <<"B", "e", "r", "l", "i", "n">>,
       <<"1", "0">>>>
\* active, vehicle, km_min 20
RowVehicleMin ==
    <<<<" ", "J", "a", " ">>,
       <<"v", "w", " ", "b", "u", "s">>,
       <<>>,
       <<>>,
       <<"5", "_", "0", "0", "0">>,
       <<"V", "e", "h", "i", "c", "l", "e">>,
       <<"2", "0">>,
       <<>>>>
\* active, vehicle, km_max 20
RowVehicleMax ==
    <<<<"1">>,
       <<"v", "w", " ", "b", "u", "s">>,
       <<"B", "e", "r", "l", "i", "n">>,
       <<"0">>,
       <<>>,
       <<"v", "e", "h", "i", "c", "l", "e", " ">>,
       <<>>,
       <<"2", "0">>,
       <<"l", "3", "3", "3", "1">>>>
\* active, vehicle, no distance bounds (the row is shorter than the header)
RowVehicleOpen ==
    <<<<"y">>,
       <<"v", "w", " ", "b", "u", "s">>,
       <<>>,
       <<>>,
       <<>>,
       <<"V", "E", "H", "I", "C", "L", "E">>>>
\* active, generic, with km cells filled in (km_min not a number)
RowGenericKm ==
    <<<<"y", "e", "s">>,
       <<"s", "o", "f", "a">>,
       <<>>,
       <<>>,
       <<>>,
       <<"g", "e", "n", "e", "r", "i", "c">>,
       <<"x">>,
       <<"2", "0">>>>
\* not active; its price and km cells are never parsed
RowInactive ==
    <<<<"n", "o">>,
       <<"s", "o", "f", "a">>,
       <<>>,
       <<"a", "b", "c">>,
       <<>>,
       <<"v", "e", "h", "i", "c", "l", "e">>,
       <<"x">>,
       <<>>>>
\* active, vehicle, km_min not a number
RowBadKm ==
    <<<<"T", "R", "U", "E">>,
       <<"v", "w", " ", "b", "u", "s">>,
       <<>>,
       <<>>,
       <<>>,
       <<"v", "e", "h", "i", "c", "l", "e">>,
       <<"x">>,
       <<>>>>

\* The active rows whose cells all parse.
GoodRows == {RowVehicleMin, RowVehicleMax, RowVehicleOpen, RowGenericKm}

SearchRowSamples == GoodRows \cup {RowInactive, RowBadKm}

\* The rows below the header: at most n of them, each one of rows.
RowLists(rows, n) == UNION {[1..m -> rows] : m \in 0..n}

\* The Searches tab at the start of a run: empty, or a header and its rows.
SearchesSamples ==
    {<<>>}
    \cup {<<HeaderFull>> \o rs : rs \in RowLists(SearchRowSamples, MaxSearches)}
    \cup {<<HeaderNoKmMax>> \o rs : rs \in RowLists({RowGeneric}, 1)}

\* A row an earlier run has written, with the ad id 123456.
OldRow ==
    << <<"1", "2", "3", "4", "5", "6">>, <<"s", "o", "f", "a">>, <<"Sofa">>, <<"5", "0">>,
       <<>>, <<"y">>, BASE_HOST \o <<"/", "a", "/", "1", "2", "3", "4", "5", "6", "-", "1">>,
       <<"x">>, <<"T", "0">> >>

\* The Results tab at the start of a run: empty, written by this program, or
\* written under a header without the fetched_at column.
ResultsSample1 == <<>>
ResultsSample2 == <<RESULT_HEADERS, OldRow>>
ResultsSample3 == <<SubSeq(RESULT_HEADERS, 1, 8), SubSeq(OldRow, 1, 8)>>

ResultsSamples == {ResultsSample1, ResultsSample2, ResultsSample3}

\* Ad cards of a fetched page.  CardA and CardA2 carry the same ad id under two
\* links; CardB has a link without an id; CardBare has no anchor.
CardA ==
    [href |-> Some(<<"/", "a", "/", "1", "2", "3", "4", "5", "6", "-", "1">>),
     title |-> <<"Sofa">>, price |-> Some(50), km |-> None,
     meta |-> <<"x", " ", BULLET, " ", "y">>]
CardA2 ==
    [href |-> Some(<<"/", "b", "/", "1", "2", "3", "4", "5", "6", "-", "2">>),
     title |-> <<"Bus">>, price |-> None, km |-> Some(15), meta |-> <<"y">>]
CardB ==
    [href |-> Some(<<"/", "c", "/", "7", "7">>),
     title |-> <<"Bulli">>, price |-> Some(0), km |-> Some(25), meta |-> <<>>]
CardBare ==
    [href |-> None, title |-> <<>>, price |-> None, km |-> None, meta |-> <<>>]

CardSamples == {CardA, CardA2, CardB}

CardLists(cards, n) == UNION {[1..m -> cards] : m \in 0..n}

\* The phrases the lowered text of a consent page contains.
CONSENT_PHRASES == {"einwilligung", "cookies"}

\* The GET of fetch_listings raised (network error, timeout, HTTP status).
FetchError == [ok |-> FALSE, phrases |-> {}, cards |-> <<>>]

\* The pages with the phrases ph and at most n cards, each one of cards.
Pages(ph, cards, n) ==
    {[ok |-> TRUE, phrases |-> ph, cards |-> cs] : cs \in CardLists(cards, n)}

\* A results page with two ad cards, the first without an anchor.
BarePage == [ok |-> TRUE, phrases |-> {}, cards |-> <<CardBare, CardA>>]

\* What one GET can come back with: an error, a results page, a consent page
\* (with or without ad cards in its markup).
FetchOutcomes ==
    {FetchError, BarePage}
    \cup Pages({}, CardSamples, MaxCards)
    \cup Pages(CONSENT_PHRASES, {CardA}, MaxCards)

\* ------------------------------------------------------------------ state
VARIABLES
    pc,            \* where main() is
    results,       \* the Results tab, a sequence of rows
    searches,      \* the Searches tab, a sequence of rows
    header,        \* the lowered first row of the Searches tab
    site,          \* the site's answers by search row, where they are fixed
    i,             \* the row of the Searches tab the loop is at
    cur,           \* the search parsed from row i
    items,         \* the listings of the current search not yet looked at
    page,          \* the page the current listings were parsed from
    existing_ids,  \* the known-id set
    to_append,     \* the row buffer
    now_iso,       \* the timestamp taken before the loop
    clock,         \* the time, in tenths of a second
    appends,       \* history: the rows of each append call of this run
    ids_loaded,    \* history: the known-id set as loaded in this run
    nFetch,        \* history: GETs issued in this run
    nSleep,        \* history: pacing delays taken in this run
    passed,        \* history: ids of this run's listings the distance filter let through
    run,           \* history: 1 in the first run, 2 in the one after it
    prev,          \* history: how the run before this one ended
    call           \* the arguments of the latest build_search_url call

vars ==
    <<pc, results, searches, header, site, i, cur, items, page, existing_ids, to_append,
      now_iso, clock, appends, ids_loaded, nFetch, nSleep, passed, run, prev, call>>

\* time.sleep(2) and time.sleep(1.2), in tenths of a second
SLEEP_FAIL == 20
SLEEP_OK == 12

NoSearch == [query |-> <<>>, kind |-> <<>>, km_min |-> None, km_max |-> None, url |-> <<>>]
NoPage == [ok |-> FALSE, phrases |-> {}, cards |-> <<>>]
NoPrev == [pc |-> "none", ids_loaded |-> {}]
NoCall ==
    [made |-> FALSE, query |-> <<>>, location |-> <<>>, radius |-> 0,
     price_min |-> None, price_max |-> None, loc_id |-> None]

\* The locals of main() before it has run.
Fresh ==
    /\ pc = "start"
    /\ header = <<>>
    /\ i = 1
    /\ cur = NoSearch
    /\ items = <<>>
    /\ page = NoPage
    /\ existing_ids = {}
    /\ to_append = <<>>
    /\ now_iso = <<>>
    /\ clock = 0
    /\ appends = <<>>
    /\ ids_loaded = {}
    /\ nFetch = 0
    /\ nSleep = 0
    /\ passed = {}
    /\ run = 1
    /\ prev = NoPrev
    /\ call = NoCall

\* One run against a site that may answer anything.
Init ==
    /\ results \in ResultsSamples
    /\ searches \in SearchesSamples
    /\ site = <<>>
    /\ Fresh

Row == searches[i]

\* ensure_headers(RESULTS_TAB, [...]), line 195
EnsureHeaders ==
    /\ pc = "start"
    /\ results' = ensure_headers(results, RESULT_HEADERS)
    /\ pc' = "load"
    /\ UNCHANGED <<searches, header, site, i, cur, items, page, existing_ids, to_append, now_iso,
                   clock, appends, ids_loaded, nFetch, nSleep, run, prev, call, passed>>

\* lines 200-203: fewer than two rows on the Searches tab, main() returns
NoSearches ==
    /\ pc = "load"
    /\ Len(searches) < 2
    /\ pc' = "nosearch"
    /\ UNCHANGED <<results, searches, header, site, i, cur, items, page, existing_ids, to_append,
                   now_iso, clock, appends, ids_loaded, nFetch, nSleep, run, prev, call, passed>>

\* lines 205-210: a required column is missing, main() raises RuntimeError
MissingRequired ==
    /\ pc = "load"
    /\ Len(searches) >= 2
    /\ MissingColumn(HeaderOf(searches))
    /\ header' = HeaderOf(searches)
    /\ pc' = "aborted"
    /\ UNCHANGED <<results, searches, site, i, cur, items, page, existing_ids, to_append,
                   now_iso, clock, appends, ids_loaded, nFetch, nSleep, run, prev, call, passed>>

\* lines 213-215: the known ids are loaded, the buffer and the timestamp set
BeginLoop ==
    /\ pc = "load"
    /\ Len(searches) >= 2
    /\ ~MissingColumn(HeaderOf(searches))
    /\ header' = HeaderOf(searches)
    /\ existing_ids' = load_existing_ad_ids(results)
    /\ ids_loaded' = load_existing_ad_ids(results)
    /\ to_append' = <<>>
    /\ now_iso' = IsoFormat(clock)
    /\ i' = 2
    /\ pc' = "loop"
    /\ UNCHANGED <<results, searches, site, cur, items, page, clock, appends,
                   nFetch, nSleep, run, prev, call, passed>>

\* lines 220-223: the row is not active
SkipInactive ==
    /\ pc = "loop"
    /\ i <= Len(searches)
    /\ ~IsActive(Row, header)
    /\ i' = i + 1
    /\ UNCHANGED <<pc, results, searches, header, site, cur, items, page, existing_ids, to_append,
                   now_iso, clock, appends, ids_loaded, nFetch, nSleep, run, prev, call, passed>>

\* AppendCalls without the test for an empty buffer.
AppendCalls_Always(calls, rows) == Append(calls, rows)

\* The append calls after write_rows_append(tab, rows): none for no rows.
AppendCalls(calls, rows) == IF rows = <<>> THEN calls ELSE Append(calls, rows)

\* ParseError writing the buffer out before main() ends (as a finally would).
ParseError_Flushes ==
    /\ pc = "loop"
    /\ i <= Len(searches)
    /\ IsActive(Row, header)
    /\ RowRaises(Row, header)
    /\ results' = write_rows_append(results, to_append)
    /\ appends' = AppendCalls(appends, to_append)
    /\ pc' = "aborted"
    /\ UNCHANGED <<searches, header, site, i, cur, items, page, existing_ids, to_append,
                   now_iso, clock, ids_loaded, nFetch, nSleep, run, prev, call, passed>>

\* lines 227-234: an int() raises ValueError, which nothing catches
ParseError ==
    /\ pc = "loop"
    /\ i <= Len(searches)
    /\ IsActive(Row, header)
    /\ RowRaises(Row, header)
    /\ pc' = "aborted"
    /\ UNCHANGED <<results, searches, header, site, i, cur, items, page, existing_ids, to_append,
                   now_iso, clock, appends, ids_loaded, nFetch, nSleep, run, prev, call, passed>>

\* lines 225-243: the row is parsed and its URL built
BuildUrl ==
    /\ pc = "loop"
    /\ i <= Len(searches)
    /\ IsActive(Row, header)
    /\ ~RowRaises(Row, header)
    /\ cur' = SearchOf(Row, header)
    /\ call' = UrlArgsOf(Row, header)
    /\ pc' = "fetch"
    /\ UNCHANGED <<results, searches, header, site, i, items, page, existing_ids, to_append,
                   now_iso, clock, appends, ids_loaded, nFetch, nSleep, run, prev, passed>>

\* What the site can answer for search row k.
Responses(k) == IF k \in DOMAIN site THEN {site[k]} ELSE FetchOutcomes

\* lines 245-248: fetch_listings raises, the exception is caught
FetchFails ==
    /\ pc = "fetch"
    /\ \E o \in Responses(i) : ~o.ok
    /\ nFetch' = nFetch + 1
    /\ pc' = "failed"
    /\ UNCHANGED <<results, searches, header, site, i, cur, items, page, existing_ids, to_append,
                   now_iso, clock, appends, ids_loaded, nSleep, run, prev, call, passed>>

\* SleepFailed without the delay.
SleepFailed_NoDelay ==
    /\ pc = "failed"
    /\ i' = i + 1
    /\ cur' = NoSearch
    /\ pc' = "loop"
    /\ UNCHANGED <<results, searches, header, site, items, page, existing_ids, to_append,
                   now_iso, clock, appends, ids_loaded, nFetch, nSleep, run, prev, call, passed>>

\* SleepFailed leaving the loop (break) instead of going on (continue).
SleepFailed_Break ==
    /\ pc = "failed"
    /\ clock' = clock + SLEEP_FAIL
    /\ nSleep' = nSleep + 1
    /\ i' = Len(searches) + 1
    /\ cur' = NoSearch
    /\ pc' = "loop"
    /\ UNCHANGED <<results, searches, header, site, items, page, existing_ids, to_append,
                   now_iso, appends, ids_loaded, nFetch, run, prev, call, passed>>

\* lines 249-250: time.sleep(2); continue
SleepFailed ==
    /\ pc = "failed"
    /\ clock' = clock + SLEEP_FAIL
    /\ nSleep' = nSleep + 1
    /\ i' = i + 1
    /\ cur' = NoSearch
    /\ pc' = "loop"
    /\ UNCHANGED <<results, searches, header, site, items, page, existing_ids, to_append, now_iso,
                   appends, ids_loaded, nFetch, run, prev, call, passed>>

\* line 246: fetch_listings returns the listings of the page
FetchReturns ==
    /\ pc = "fetch"
    /\ \E o \in Responses(i) :
          /\ o.ok
          /\ page' = o
          /\ items' = fetch_listings(o)
    /\ nFetch' = nFetch + 1
    /\ pc' = "items"
    /\ UNCHANGED <<results, searches, header, site, i, cur, existing_ids, to_append, now_iso,
                   clock, appends, ids_loaded, nSleep, run, prev, call, passed>>

\* Skips without the known-id test.
Skips_IgnoreKnown(s, known, it) == KmRejects(s, it)

\* Whether the loop body of lines 252-277 skips the listing.
Skips(s, known, it) == KmRejects(s, it) \/ IsKnown(known, it)

\* NextItem taking the timestamp of a row when the row is buffered.
NextItem_StampsClock ==
    /\ pc = "items"
    /\ items # <<>>
    /\ items' = Tail(items)
    /\ IF Skips(cur, existing_ids, Head(items))
       THEN UNCHANGED <<to_append, existing_ids>>
       ELSE /\ to_append' = Append(to_append, ResultRow(cur, Head(items), IsoFormat(clock)))
            /\ existing_ids' = AddKnown(existing_ids, Head(items))
    /\ passed' = IF KmRejects(cur, Head(items)) THEN passed ELSE passed \cup {Head(items).ad_id}
    /\ UNCHANGED <<pc, results, searches, header, site, i, cur, page, now_iso, clock, appends,
                   ids_loaded, nFetch, nSleep, run, prev, call>>

\* lines 252-277: one turn of the loop over the listings
NextItem ==
    /\ pc = "items"
    /\ items # <<>>
    /\ items' = Tail(items)
    /\ IF Skips(cur, existing_ids, Head(items))
       THEN UNCHANGED <<to_append, existing_ids>>
       ELSE /\ to_append' = Append(to_append, ResultRow(cur, Head(items), now_iso))
            /\ existing_ids' = AddKnown(existing_ids, Head(items))
    /\ passed' = IF KmRejects(cur, Head(items)) THEN passed ELSE passed \cup {Head(items).ad_id}
    /\ UNCHANGED <<pc, results, searches, header, site, i, cur, page, now_iso, clock, appends,
                   ids_loaded, nFetch, nSleep, run, prev, call>>

\* line 279: time.sleep(1.2) after the listings of the search
SleepPaced ==
    /\ pc = "items"
    /\ items = <<>>
    /\ clock' = clock + SLEEP_OK
    /\ nSleep' = nSleep + 1
    /\ i' = i + 1
    /\ cur' = NoSearch
    /\ page' = NoPage
    /\ pc' = "loop"
    /\ UNCHANGED <<results, searches, header, site, items, existing_ids, to_append, now_iso,
                   appends, ids_loaded, nFetch, run, prev, call, passed>>

\* lines 281-285: after the last row, the buffer is written, if it holds a row
Flush ==
    /\ pc = "loop"
    /\ i > Len(searches)
    /\ results' = write_rows_append(results, to_append)
    /\ appends' = AppendCalls(appends, to_append)
    /\ pc' = "done"
    /\ UNCHANGED <<searches, header, site, i, cur, items, page, existing_ids, to_append, now_iso,
                   clock, ids_loaded, nFetch, nSleep, run, prev, call, passed>>

Next ==
    \/ EnsureHeaders
    \/ NoSearches
    \/ MissingRequired
    \/ BeginLoop
    \/ SkipInactive
    \/ ParseError
    \/ BuildUrl
    \/ FetchFails
    \/ SleepFailed
    \/ FetchReturns
    \/ NextItem
    \/ SleepPaced
    \/ Flush

Spec == Init /\ [][Next]_vars

\* ------------------------------------------------------------------ two runs
\* The scheduler starts main() again: the tabs stay, the locals are fresh.
Restart ==
    /\ pc \in {"done", "aborted", "nosearch"}
    /\ run = 1
    /\ run' = 2
    /\ prev' = [pc |-> pc, ids_loaded |-> ids_loaded]
    /\ pc' = "start"
    /\ i' = 1
    /\ cur' = NoSearch
    /\ items' = <<>>
    /\ page' = NoPage
    /\ existing_ids' = {}
    /\ to_append' = <<>>
    /\ now_iso' = <<>>
    /\ clock' = clock + 1
    /\ appends' = <<>>
    /\ ids_loaded' = {}
    /\ nFetch' = 0
    /\ nSleep' = 0
    /\ call' = NoCall
    /\ header' = <<>>
    /\ passed' = {}
    /\ UNCHANGED <<results, searches, site>>

\* The Searches tab of the two-run check.
TwoRunSearches ==
    {<<HeaderNoKmMax, RowGeneric>>}
    \cup {<<HeaderFull>> \o rs :
             rs \in RowLists({RowVehicleOpen, RowInactive, RowBadKm}, MaxSearches)}

\* What the site answers in the two-run check.
TwoRunOutcomes == {FetchError} \cup Pages({}, {CardA2, CardB}, MaxCards)

\* The rows of the tab that a run can fetch for.
FetchedRows(tab) == {k \in 2..Len(tab) : tab[k] \in GoodRows}

\* Two runs over the same Searches tab against a site that answers each search
\* row the same way both times.
InitTwoRuns ==
    /\ results \in {ResultsSample1, ResultsSample3}
    /\ searches \in TwoRunSearches
    /\ site \in [FetchedRows(searches) -> TwoRunOutcomes]
    /\ Fresh

NextTwoRuns == Next \/ Restart

SpecTwoRuns == InitTwoRuns /\ [][NextTwoRuns]_vars

\* ------------------------------------------------------------------ the URL builder alone
UrlArgSamples ==
    [made      : {TRUE},
     query     : { <<"s", "o", "f", "a">>, <<"v", "w", " ", "b", "/", "s">> },
     location  : { <<>>, <<" ", "B", "a", "d", " ", "O", "r", "b">> },
     radius    : {0, 5, DEFAULT_RADIUS},
     price_min : {None, Some(0), Some(10)},
     price_max : {None, Some(0), Some(250)},
     loc_id    : {None, Some(<<>>), Some(<<"3", "3", "3", "1">>)}]

\* build_search_url is called with some arguments.
CallBuildUrl ==
    /\ pc = "start"
    /\ ~call.made
    /\ \E a \in UrlArgSamples :
          /\ call' = a
          /\ cur' = [NoSearch EXCEPT !.url = UrlOf(a)]
    /\ UNCHANGED <<pc, results, searches, header, site, i, items, page, existing_ids, to_append,
                   now_iso, clock, appends, ids_loaded, nFetch, nSleep, run, prev, passed>>

InitUrl ==
    /\ results = <<>>
    /\ searches = <<>>
    /\ site = <<>>
    /\ Fresh

NextUrl == CallBuildUrl

SpecUrl == InitUrl /\ [][NextUrl]_vars

\* ------------------------------------------------------------------ properties
\* The ad ids of the buffered rows, in order.
BufferedIds == [k \in 1..Len(to_append) |-> to_append[k][1]]

\* C1: no two buffered rows of a run have the same ad_id, and no buffered row
\* has an ad_id that was in column A of the Results tab when the known ids
\* were loaded.
C1_NoDuplicateIds ==
    /\ \A a, b \in 1..Len(to_append) : a # b => BufferedIds[a] # BufferedIds[b]
    /\ \A a \in 1..Len(to_append) : BufferedIds[a] \notin ids_loaded

\* C1 witness: with ids loaded from the tab and a row in the buffer, the loop is
\* at a listing that passes the distance filter and whose id is in the buffer.
C1_Witness ==
    /\ pc = "items"
    /\ items # <<>>
    /\ ids_loaded # {}
    /\ ~KmRejects(cur, Head(items))
    /\ \E a \in 1..Len(to_append) : BufferedIds[a] = Head(items).ad_id

\* C2 (as claimed): no step of a run removes or changes a row of the Results
\* tab below its first row, whatever the first row is.
C2_AppendOnly ==
    [][\A k \in 2..Len(results) : k <= Len(results') /\ results'[k] = results[k]]_vars

\* C3 (as claimed): a page for which the consent predicate holds yields no
\* listings.
C3_ConsentYieldsNoListings ==
    (pc = "items" /\ looks_like_consent(page)) => items = <<>>

\* How far main() is from its end: the rows still to take come first, then the
\* place in the turn of the loop, then the listings still to look at.
StepsLeft ==
    IF pc \in {"done", "aborted", "nosearch"} THEN 0
    ELSE (Len(searches) + 2 - i) * 100
         + (CASE pc = "start" -> 2 [] pc = "load" -> 1 [] pc = "loop" -> 99
              [] pc = "fetch" -> 98 [] pc = "failed" -> 1 [] OTHER -> 2 + Len(items))

C5_SingleFinalAppend ==
    /\ Len(appends) <= 1
    /\ appends # <<>> => (pc = "done" /\ appends[1] = to_append)
    /\ pc = "done" => /\ i > Len(searches)
                      /\ (appends = <<>>) <=> (to_append = <<>>)

\* C5 witness: a run is done after two fetches with two rows in its one append.
C5_Witness ==
    /\ pc = "done"
    /\ nFetch = 2
    /\ Len(appends) = 1
    /\ Len(appends[1]) = 2

\* The first row of the Searches tab, lowered (as main() has it in header once
\* it has read the tab), lacks a required column.
HeaderLacksColumn ==
    /\ searches # <<>>
    /\ \E n \in 1..Len(REQUIRED) :
          \A k \in 1..Len(searches[1]) :
              (IF header # <<>> THEN header[k] ELSE Lower(searches[1][k])) # REQUIRED[n]

\* C6 (as claimed): with a required column missing from the Searches header the
\* run aborts with the error, and has fetched and appended nothing.
C6_MissingColumnAborts ==
    HeaderLacksColumn =>
        /\ pc \in {"start", "load", "aborted"}
        /\ nFetch = 0
        /\ appends = <<>>

\* C6 (amended): with a required column missing and a row below the header the
\* run aborts with the error; with the header row alone it returns "No searches
\* found." without an error; either way nothing is fetched or appended.
C6_MissingColumnAbortsWithRows ==
    HeaderLacksColumn =>
        /\ pc \in (IF Len(searches) >= 2 THEN {"start", "load", "aborted"}
                                         ELSE {"start", "load", "nosearch"})
        /\ nFetch = 0
        /\ appends = <<>>
        /\ to_append = <<>>

\* C6 witness: the run has aborted on a Searches tab with a row below a header
\* that lacks a column.
C6_Witness ==
    /\ pc = "aborted"
    /\ HeaderLacksColumn
    /\ Len(searches) >= 2

\* The distance rule of the claim, read off the cells of the search row: the
\* search is of kind vehicle, and km_min is set with the distance absent or
\* below it, or km_max is set with the distance absent or above it.
ClaimedDistanceReject(row, it) ==
    LET min == Cell(row, header, REQUIRED[7])
        max == Cell(row, header, REQUIRED[8])
    IN  /\ Lower(Strip(Cell(row, header, REQUIRED[6]))) = VEHICLE
        /\ \/ Strip(min) # <<>> /\ (it.km = None \/ it.km[1] < IntOf(Replace(min, "_", <<>>)))
           \/ Strip(max) # <<>> /\ (it.km = None \/ it.km[1] > IntOf(Replace(max, "_", <<>>)))

\* C7: a listing whose id is not known is buffered exactly when the distance
\* rule does not reject it; the rule rejects only for a search of kind vehicle.
C7_DistanceFilter ==
    [][(pc = "items" /\ items # <<>> /\ ~IsKnown(existing_ids, Head(items))) =>
          ((to_append' = to_append) <=> ClaimedDistanceReject(searches[i], Head(items)))]_vars

\* C7 witness: the first search is a vehicle search without bounds, and the
\* row of a listing without a distance is in the buffer.
C7_Witness ==
    /\ pc = "items"
    /\ i = 2
    /\ cur.kind = VEHICLE
    /\ cur.km_min = None
    /\ cur.km_max = None
    /\ \E k \in 1..Len(to_append) : to_append[k][5] = <<>>

\* C8: after a first run that loaded no known ids and ended with its flush, a
\* second run over the same searches and the same fetch results buffers no row
\* and makes no append.
C8_SecondRunAddsNothing ==
    (run = 2 /\ prev.pc = "done" /\ prev.ids_loaded = {}) =>
        (to_append = <<>> /\ appends = <<>>)

\* C8 witness: the second run is done after a fetch, the first run having
\* loaded no ids and left two rows of its own on the tab.
C8_Witness ==
    /\ run = 2
    /\ pc = "done"
    /\ prev.pc = "done"
    /\ prev.ids_loaded = {}
    /\ nFetch >= 1
    /\ Len(results) = 3

\* The active rows of the Searches tab up to row k.
ActiveUpTo(k) == {n \in 2..k : n <= Len(searches) /\ IsActive(searches[n], header)}

\* C9: every fetch is followed by a pacing delay before the loop goes on: a
\* delay is owed exactly while the outcome of a fetch is being handled, and a
\* finished run has taken one delay for each active search.
C9_PacingAfterEverySearch ==
    /\ nFetch - nSleep = (IF pc \in {"failed", "items"} THEN 1 ELSE 0)
    /\ pc = "done" => nSleep = Cardinality(ActiveUpTo(Len(searches)))

\* C9 witness: a finished run with a failed and a successful fetch, and both
\* delays on the clock.
C9_Witness ==
    /\ pc = "done"
    /\ nFetch = 2
    /\ nSleep = 2
    /\ clock = SLEEP_FAIL + SLEEP_OK

\* C10: after the slug/query/k0 prefix the URL holds, in this order, "l" and
\* the location id iff one is given, "r" and the radius iff it is not 0, and
\* "p", the lower bound, "p", the upper bound iff a bound is given (0 is a
\* bound), an absent bound being the empty string.
C10_UrlTokens ==
    call.made =>
        LET locGiven   == call.loc_id # None /\ call.loc_id[1] # <<>>
            priceGiven == call.price_min # None \/ call.price_max # None
            loc    == IF locGiven THEN <<"l">> \o call.loc_id[1] ELSE <<>>
            radius == IF call.radius # 0 THEN <<"r">> \o IntToStr(call.radius) ELSE <<>>
            lo     == IF call.price_min = None THEN <<>> ELSE IntToStr(call.price_min[1])
            hi     == IF call.price_max = None THEN <<>> ELSE IntToStr(call.price_max[1])
            price  == IF priceGiven THEN <<"p">> \o lo \o <<"p">> \o hi ELSE <<>>
        IN  cur.url = UrlBase(call.query, call.location) \o loc \o radius \o price

\* C10 witness: a call with a location id, a radius, a lower bound of 0 and no
\* upper bound.
C10_Witness ==
    /\ call.made
    /\ call.loc_id = Some(<<"3", "3", "3", "1">>)
    /\ call.radius = 5
    /\ call.price_min = Some(0)
    /\ call.price_max = None

\* The listing the loop is at is the first of this run with its ad_id that the
\* distance rule lets through.
FirstPassingOccurrence ==
    /\ ~ClaimedDistanceReject(searches[i], Head(items))
    /\ Head(items).ad_id \notin passed

\* The buffer grows by one row, at its end, for the listing the loop is at and
\* under the query of the search the loop is at; the id is known from then on.
BuffersCurrentListing ==
    /\ Len(to_append') = Len(to_append) + 1
    /\ SubSeq(to_append', 1, Len(to_append)) = to_append
    /\ to_append'[Len(to_append')][1] = Head(items).ad_id
    /\ to_append'[Len(to_append')][2] = Strip(Cell(searches[i], header, REQUIRED[2]))
    /\ Head(items).ad_id \in existing_ids'

\* C11 (as claimed): in every step over a listing, the listing is buffered (at
\* the end of the buffer, under the query of its search, its id known at once)
\* exactly when it is the first occurrence of its ad_id in the run that passes
\* the distance filter; no other step changes the buffer.
C11_FirstPassingOccurrenceBuffered ==
    [][IF pc = "items" /\ items # <<>>
       THEN IF FirstPassingOccurrence
            THEN BuffersCurrentListing
            ELSE to_append' = to_append
       ELSE to_append' = to_append]_vars

\* C11: in every step over a listing, the listing is buffered (at the end of
\* the buffer, under the query of its search, its id known at once) exactly
\* when it is the first occurrence of its ad_id in the run that passes the
\* distance filter and the id was not in column A of the Results tab when the
\* known ids were loaded; no other step changes the buffer.
C11_FirstNewPassingOccurrenceBuffered ==
    [][IF pc = "items" /\ items # <<>>
       THEN IF FirstPassingOccurrence /\ Head(items).ad_id \notin ids_loaded
            THEN BuffersCurrentListing
            ELSE to_append' = to_append
       ELSE to_append' = to_append]_vars

\* C11 witness: the second search of the run, with another query than the row
\* buffered from the first, is at a listing that passes its filter, whose id is
\* new, and whose id this search has met before on a listing that its distance
\* bound rejected.
C11_Witness ==
    /\ pc = "items"
    /\ i = 3
    /\ nFetch = 2
    /\ items # <<>>
    /\ to_append # <<>>
    /\ to_append[1][2] # cur.query
    /\ Head(items).ad_id \notin passed \cup existing_ids
    /\ ~ClaimedDistanceReject(searches[i], Head(items))
    /\ \E k \in 1..(Len(fetch_listings(page)) - Len(items)) :
          /\ fetch_listings(page)[k].ad_id = Head(items).ad_id
          /\ ClaimedDistanceReject(searches[i], fetch_listings(page)[k])

\* C12: every row in the buffer, and every row handed to an append call, has
\* the run's timestamp now_iso in its fetched_at cell; once the loop has begun,
\* now_iso is the time of a moment not after the present, so not after any
\* fetch of the run; and now_iso is only ever set before the first fetch, to the
\* time of that moment, and no search or pacing delay changes it afterwards.
C12_OneTimestampPerRun ==
    /\ [](/\ \A k \in 1..Len(to_append) : to_append[k][Len(RESULT_HEADERS)] = now_iso
          /\ \A c \in 1..Len(appends) : \A k \in 1..Len(appends[c]) :
                appends[c][k][Len(RESULT_HEADERS)] = now_iso
          /\ pc \in {"loop", "fetch", "failed", "items", "done"} =>
                \E t \in 0..clock : now_iso = IsoFormat(t))
    /\ [][now_iso' # now_iso =>
             (pc = "load" /\ nFetch = 0 /\ nSleep = 0 /\ now_iso' = IsoFormat(clock))]_vars

\* C12 witness: rows of two searches are in the buffer, a pacing delay lies
\* between them, and the time is past the timestamp.
C12_Witness ==
    /\ pc = "items"
    /\ i = 3
    /\ nSleep = 1
    /\ Len(to_append) >= 2
    /\ to_append[1][2] # to_append[Len(to_append)][2]
    /\ IsoFormat(clock) # now_iso

\* C13: when main() has ended on an error raised inside the loop over the
\* searches, no append call was made, the Results tab is the tab as it was when
\* the known ids were loaded (the header, and the rows whose ids were loaded),
\* and none of the rows in the buffer is on the tab.
C13_AbortInLoopAppendsNothing ==
    (pc = "aborted" /\ i >= 2) =>
        /\ appends = <<>>
        /\ results \in {ensure_headers(tab, RESULT_HEADERS) : tab \in ResultsSamples}
        /\ load_existing_ad_ids(results) = ids_loaded
        /\ \A k \in 1..Len(to_append) :
              \A n \in 1..Len(results) : results[n] # to_append[k]

\* C13 witness: the first search was fetched and a row accepted from it, and the
\* run has ended on the second search row, whose cells do not parse.
C13_Witness ==
    /\ pc = "aborted"
    /\ i = 3
    /\ nFetch = 1
    /\ to_append # <<>>
    /\ RowRaises(searches[3], header)

====
